---- MODULE Spec2Model ----
(***************************************************************************)
(* Model of the quotation / order / payment lifecycle tools of the         *)
(* zeus-ai-service (tools/create_quotation_tool.py and                     *)
(* tools/create_order_tool.py) running against the shared store.           *)
(*                                                                         *)
(* Each tool call is a sequence of store statements; one action models one *)
(* store statement together with the local computation that leads to it.   *)
(* Several callers (Procs) may run tool calls at the same time.            *)
(*                                                                         *)
(* Further down: the vehicle search cascade of tools/quotation_db_tool.py  *)
(* (SpecSearch), the two chat endpoints of main.py (SpecChat), and the     *)
(* embedding ingestion script ingest_embeddings.py with the policy search  *)
(* of tools/policy_rag_tool.py (SpecIngest).                               *)
(***************************************************************************)
EXTENDS Integers, Sequences, FiniteSets, TLC

(***************************************************************************)
(* Bounds of the model.                                                    *)
(***************************************************************************)
TicksPerDay == 2        \* resolution of the model clock
MaxSlack == 0           \* how far the clock runs past one validity window
MaxQuotations == 1      \* rows the quotations table may hold
MaxOrders == 2          \* rows the orders table may hold
MaxExtra == 2           \* stored chat messages beyond the history limit
MaxRounds == 9          \* tool-calling rounds one chat request may take
MaxDocs == 7           \* rows of the policy_documents table
MaxRuns == 2            \* ingestion runs started one after another

(***************************************************************************)
(* Program constants.                                                      *)
(***************************************************************************)
ValidityDays == 30      \* timedelta(days=30)
PolicyDays == 365       \* timedelta(days=365)
HistoryLimit == 20      \* _fetch_history(session_id, limit=20)
BATCH_SIZE == 5
MAX_RETRIES == 3
VECTOR_DIMENSIONS == 2000
QueryDimensions == 2000 \* query_embedding[:2000]
BackoffSeconds == 2     \* wait = attempt * 2.0

ValidityTicks == ValidityDays * TicksPerDay
MaxNow == ValidityTicks + MaxSlack + 1

(***************************************************************************)
(* Input domains.                                                          *)
(***************************************************************************)
Procs == {1, 2}
None == "None"                          \* Python None of a string argument
NoDate == {}                            \* Python None of a timestamp value
SessionIds == {"s1"}
CarModelIds == {1, 2}
PlanIds == {1}
Suffixes == {"0A1B", "F00D"}            \* str(uuid.uuid4())[:4].upper()
PaymentMethods == {None, "pending", "bank_transfer"}
PaymentStatusArgs == {"paid", "failed", "refunded", "bogus"}
PaymentDateArgs == {NoDate, {1}}
\* the instants at which the clock is observed: the first ticks, and the ticks
\* from the end of the first validity window on
Instants == {t \in 0..MaxNow : t <= MaxSlack \/ t >= ValidityTicks}
StoreOutcomes == {"ok", "raise"}

\* the argument values callers draw from: every value (Wide), and the few
\* values used while tool calls of several callers interleave (Narrow)
Wide ==
    [ methods |-> PaymentMethods, statuses |-> PaymentStatusArgs,
      dates |-> PaymentDateArgs, suffixes |-> Suffixes,
      quotations |-> MaxQuotations ]
Narrow ==
    [ methods |-> {"pending", "bank_transfer"}, statuses |-> {"paid", "failed"},
      dates |-> {NoDate}, suffixes |-> {"0A1B"},
      quotations |-> MaxQuotations ]
\* the values used while one more quotation than usual is created
Twice ==
    [ methods |-> {"pending"}, statuses |-> {"paid"},
      dates |-> {NoDate}, suffixes |-> Suffixes,
      quotations |-> MaxQuotations + 1 ]
InsertOutcomes == {"ok", "empty", "raise"}

\* vw_quotation_details: the joined vehicle + plan reference rows
\* text is a sequence of space-separated words; the empty text <<>> stands for
\* both "" and None, which the search code never tells apart (it tests truth)
vw_quotation_details ==
    { [car_model_id |-> 1, plan_id |-> 1, base_premium |-> 15000,
       brand |-> <<"Honda">>, model |-> <<"Civic">>,
       sub_model |-> <<"e:HEV", "RS">>, year |-> 2024],
      [car_model_id |-> 3, plan_id |-> 1, base_premium |-> 21000,
       brand |-> <<"Honda">>, model |-> <<"Civic">>,
       sub_model |-> <<"Type", "R">>, year |-> 2023],
      [car_model_id |-> 4, plan_id |-> 1, base_premium |-> 18000,
       brand |-> <<"Honda">>, model |-> <<"Accord">>,
       sub_model |-> <<"Turbo">>, year |-> 2024],
      [car_model_id |-> 5, plan_id |-> 1, base_premium |-> 17000,
       brand |-> <<"Toyota">>, model |-> <<"Camry">>,
       sub_model |-> <<"Hybrid", "Premium">>, year |-> 2024] }

\* arguments of search_quotation_details; year 0 stands for None
BrandArgs == {<<>>, <<"honda">>, <<"Toyota">>, <<"Kia">>}
ModelArgs == {<<>>, <<"Civic">>, <<"Jazz">>}
SubModelArgs == {<<>>, <<"RS">>, <<"GT">>, <<"2024">>, <<"RS", "-", "2024">>}
YearArgs == {0, 2023, 2030}
\* the words that match \b(19|20)\d{2}\b
YearWords == {"2023", "2024"}

VARIABLES
    now,            \* wall clock, in ticks
    quotations,     \* table "quotations": sequence of rows, id = index
    orders,         \* table "orders": sequence of rows, id = index
    pc,             \* pc[p]: position of caller p inside its tool call
    call,           \* call[p]: arguments and locals of the running tool call
    ret,            \* the result handed back by the step just taken, if any
    everPaid        \* history: orders an applied update had payment_status "paid"

VARIABLES
    search,         \* the last search_quotation_details call: arguments, result
    chat_sessions,  \* table "chat_sessions" of one session: sequence of rows
    rq              \* the chat request being served: position, locals, output

VARIABLES
    policy_documents,   \* table "policy_documents": sequence of rows, id = index
    run,                \* the ingestion run: position, arguments, locals, exit
    rag                 \* the last search_policy_documents call

vars == <<now, quotations, orders, pc, call, ret, everPaid,
          search, chat_sessions, rq, policy_documents, run, rag>>

ingestVars == <<policy_documents, run, rag>>

\* the state of the order lifecycle tools, and the state of the other components
lifecycleVars == <<now, quotations, orders, pc, call, ret, everPaid>>
otherVars == <<search, chat_sessions, rq, ingestVars>>

(***************************************************************************)
(* Pure helpers.                                                           *)
(***************************************************************************)
\* datetime.date(): the calendar day of a timestamp
DateOf(t) == t \div TicksPerDay

\* _generate_quotation_number / _generate_order_number / _generate_policy_number
GenerateNumber(prefix, t, suffix) == <<prefix, DateOf(t), suffix>>

\* variant: the validity window is counted from the start of the day
ValidUntil_FromMidnight(t) == DateOf(t) * TicksPerDay + ValidityTicks

\* create_quotation: valid_until = datetime.now() + timedelta(days=30)
ValidUntil(t) == t + ValidityTicks

\* variant: a call made within a day after valid_until is still let through
IsExpiredAt_GraceDay(t, valid_until) == t > valid_until + TicksPerDay

\* variant: the validity check compares calendar days instead of timestamps
IsExpiredAt_ByDate(t, valid_until) == DateOf(t) > DateOf(valid_until)

\* create_order: if datetime.now(valid_until.tzinfo) > valid_until
IsExpiredAt(t, valid_until) == t > valid_until

\* create_order: "pending" if payment_method == "pending" else "awaiting_confirmation"
InitialPaymentStatus(payment_method) ==
    IF payment_method = "pending" THEN "pending" ELSE "awaiting_confirmation"

\* variant: a leap-year policy window
PolicyEnd_LeapYear(policy_start) == policy_start + PolicyDays + 1

\* create_order: policy_end = policy_start + timedelta(days=365)
PolicyEnd(policy_start) == policy_start + PolicyDays

\* create_order: order_record, as stored (id, payment_date and created_at are
\* filled in by the store)
OrderRecord(quotation_id, payment_method, order_suffix, policy_suffix, t) ==
    [ quotation_id      |-> quotation_id,
      order_number      |-> GenerateNumber("ORD", t, order_suffix),
      payment_status    |-> InitialPaymentStatus(payment_method),
      payment_method    |-> payment_method,
      policy_number     |-> GenerateNumber("POL", t, policy_suffix),
      policy_start_date |-> DateOf(t),
      policy_end_date   |-> PolicyEnd(DateOf(t)),
      policy_status     |-> "inactive",
      payment_date      |-> NoDate,
      created_at        |-> t ]

\* variant: a fee is added on top of the base premium
QuotationRecord_WithFee(session_id, details, suffix, t) ==
    [ session_id       |-> session_id,
      car_model_id     |-> details.car_model_id,
      plan_id          |-> details.plan_id,
      base_premium     |-> details.base_premium,
      total_premium    |-> details.base_premium + 1,
      quotation_number |-> GenerateNumber("QT", t, suffix),
      valid_until      |-> ValidUntil(t),
      status           |-> "draft",
      created_at       |-> t ]

\* variant: the quotation is stored as already expired
QuotationRecord_Expired(session_id, details, suffix, t) ==
    [ session_id       |-> session_id,
      car_model_id     |-> details.car_model_id,
      plan_id          |-> details.plan_id,
      base_premium     |-> details.base_premium,
      total_premium    |-> details.base_premium,
      quotation_number |-> GenerateNumber("QT", t, suffix),
      valid_until      |-> ValidUntil(t),
      status           |-> "expired",
      created_at       |-> t ]

\* create_quotation: quotation_record, as stored
QuotationRecord(session_id, details, suffix, t) ==
    [ session_id       |-> session_id,
      car_model_id     |-> details.car_model_id,
      plan_id          |-> details.plan_id,
      base_premium     |-> details.base_premium,
      total_premium    |-> details.base_premium,
      quotation_number |-> GenerateNumber("QT", t, suffix),
      valid_until      |-> ValidUntil(t),
      status           |-> "draft",
      created_at       |-> t ]

\* variant: the policy is activated by every update, whatever its status
UpdateData_AlwaysActivates(row, payment_status, payment_date, t) ==
    [row EXCEPT !.payment_status = payment_status,
                !.policy_status = "active",
                !.payment_date = IF payment_date # NoDate THEN payment_date
                                 ELSE IF payment_status = "paid" THEN {t} ELSE @]

\* update_order_payment: update_data applied to an order row
\* (updated_at is a write-only audit column and is left out)
UpdateData(row, payment_status, payment_date, t) ==
    LET dated == IF payment_date # NoDate
                 THEN [row EXCEPT !.payment_date = payment_date]
                 ELSE IF payment_status = "paid"
                      THEN [row EXCEPT !.payment_date = {t}]
                      ELSE row
        activated == IF payment_status = "paid"
                     THEN [dated EXCEPT !.policy_status = "active"]
                     ELSE dated
    IN  [activated EXCEPT !.payment_status = payment_status]

\* variant: the existing-order lookup finds nothing
OrdersOfQuotation_Blind(tbl, quotation_id) == SubSeq(<<0>>, 1, 0)

\* select("*").eq("quotation_id", quotation_id) on orders: ids in row order
RECURSIVE OrdersOfQuotation(_, _)
OrdersOfQuotation(tbl, quotation_id) ==
    IF tbl = <<>> THEN <<>>
    ELSE LET rest == OrdersOfQuotation(SubSeq(tbl, 1, Len(tbl) - 1), quotation_id)
         IN  IF tbl[Len(tbl)].quotation_id = quotation_id
             THEN Append(rest, Len(tbl))
             ELSE rest

(***************************************************************************)
(* Results returned to the orchestration loop.                             *)
(***************************************************************************)
Result(kind, success, order) == [kind |-> kind, success |-> success, order |-> order]
NoResult == Result("none", FALSE, <<>>)
Raised == Result("raised", FALSE, <<>>)

\* the "order" payload of a create_order / update_order_payment result
OrderPayload(id, row) ==
    << [ order_id       |-> id,
         order_number   |-> row.order_number,
         payment_status |-> row.payment_status,
         payment_method |-> row.payment_method,
         policy_number  |-> row.policy_number,
         policy_status  |-> row.policy_status ] >>

NoCall ==
    [ op |-> "none", quotation_id |-> 0, payment_method |-> None, quotation |-> <<>>,
      created |-> <<>>, order_id |-> 0, payment_status |-> None,
      payment_date |-> NoDate, session_id |-> None, details |-> <<>> ]

InFlightInserts(op) == Cardinality({p \in Procs : call[p].op = op})

\* no search call has been made yet; no chat request has arrived yet
NoSearch == [state |-> "idle"]
NoRequest == [pc |-> "idle"]
\* no ingestion run has started yet; no policy search has been made yet
NoRun == [pc |-> "idle", runs |-> 0]
NoRag == [state |-> "idle"]

(***************************************************************************)
(* Initial state: empty tables, every caller idle.                         *)
(***************************************************************************)
Init ==
    /\ now = 0
    /\ quotations = <<>>
    /\ orders = <<>>
    /\ pc = [p \in Procs |-> "idle"]
    /\ call = [p \in Procs |-> NoCall]
    /\ ret = NoResult
    /\ everPaid = {}
    /\ search = NoSearch
    /\ chat_sessions = <<>>
    /\ rq = NoRequest
    /\ policy_documents = <<>>
    /\ run = NoRun
    /\ rag = NoRag

Return(p, result) ==
    /\ pc' = [pc EXCEPT ![p] = "idle"]
    /\ call' = [call EXCEPT ![p] = NoCall]
    /\ ret' = result
    /\ UNCHANGED otherVars

Goto(p, label, locals) ==
    /\ pc' = [pc EXCEPT ![p] = label]
    /\ call' = [call EXCEPT ![p] = locals]
    /\ ret' = NoResult
    /\ UNCHANGED otherVars

(***************************************************************************)
(* The clock.                                                              *)
(***************************************************************************)
Tick ==
    /\ \E t \in Instants :
          /\ t > now
          /\ now' = t
    /\ ret' = NoResult
    /\ UNCHANGED <<quotations, orders, pc, call, everPaid>>
    /\ UNCHANGED otherVars

(***************************************************************************)
(* create_quotation                                                        *)
(***************************************************************************)
\* select from vw_quotation_details, and the not-found return
CreateQuotationFetch(p, in) ==
    /\ pc[p] = "idle"
    /\ Len(quotations) + InFlightInserts("create_quotation") < in.quotations
    /\ \E session_id \in SessionIds, car_model_id \in CarModelIds,
          plan_id \in PlanIds, outcome \in StoreOutcomes :
          LET data == { d \in vw_quotation_details :
                          d.car_model_id = car_model_id /\ d.plan_id = plan_id }
          IN  IF outcome = "raise" THEN Return(p, Raised)
              ELSE IF data = {} THEN Return(p, Result("not_found", FALSE, <<>>))
              ELSE Goto(p, "cq_insert",
                        [NoCall EXCEPT !.op = "create_quotation",
                                       !.session_id = session_id,
                                       !.details = <<CHOOSE d \in data : TRUE>>])
    /\ UNCHANGED <<now, quotations, orders, everPaid>>

\* number and validity generation, insert into quotations, and the returns
CreateQuotationInsert(p, in) ==
    /\ pc[p] = "cq_insert"
    /\ \E suffix \in in.suffixes, outcome \in InsertOutcomes :
          IF outcome = "ok"
          THEN /\ quotations' = Append(quotations,
                     QuotationRecord(call[p].session_id, call[p].details[1], suffix, now))
               /\ Return(p, Result("quotation_created", TRUE, <<>>))
          ELSE /\ quotations' = quotations
               /\ Return(p, Result(IF outcome = "empty" THEN "insert_failed" ELSE "error",
                                   FALSE, <<>>))
    /\ UNCHANGED <<now, orders, everPaid>>

(***************************************************************************)
(* create_order                                                            *)
(***************************************************************************)
\* select the quotation, and the not-found return
CreateOrderFetch(p, in) ==
    /\ pc[p] = "idle"
    /\ Len(orders) + InFlightInserts("create_order") < MaxOrders
    /\ \E quotation_id \in 1..(MaxQuotations + 1), payment_method \in in.methods,
          outcome \in StoreOutcomes :
          IF outcome = "raise" THEN Return(p, Raised)
          ELSE IF quotation_id \notin DOMAIN quotations
               THEN Return(p, Result("not_found", FALSE, <<>>))
          ELSE Goto(p, "co_check",
                    [NoCall EXCEPT !.op = "create_order",
                                   !.quotation_id = quotation_id,
                                   !.payment_method = payment_method,
                                   !.quotation = <<quotations[quotation_id]>>])
    /\ UNCHANGED <<now, quotations, orders, everPaid>>

\* validity checks, select of the existing orders, and the existing-order return
CreateOrderCheck(p) ==
    /\ pc[p] = "co_check"
    /\ LET quotation == call[p].quotation[1]
       IN  IF IsExpiredAt(now, quotation.valid_until)
           THEN Return(p, Result("expired", FALSE, <<>>))
           ELSE IF quotation.status = "expired"
           THEN Return(p, Result("expired_status", FALSE, <<>>))
           ELSE \E outcome \in StoreOutcomes :
                  LET existing == OrdersOfQuotation(orders, call[p].quotation_id)
                  IN  IF outcome = "raise" THEN Return(p, Raised)
                      ELSE IF existing # <<>>
                      THEN Return(p, Result("exists", TRUE,
                                            OrderPayload(existing[1], orders[existing[1]])))
                      ELSE Goto(p, "co_insert", call[p])
    /\ UNCHANGED <<now, quotations, orders, everPaid>>

\* number and policy-window generation, insert into orders, and the failure returns
CreateOrderInsert(p, in) ==
    /\ pc[p] = "co_insert"
    /\ \E order_suffix \in in.suffixes, policy_suffix \in in.suffixes,
          outcome \in InsertOutcomes :
          IF outcome = "ok"
          THEN /\ orders' = Append(orders,
                     OrderRecord(call[p].quotation_id, call[p].payment_method,
                                 order_suffix, policy_suffix, now))
               /\ Goto(p, "co_update",
                       [call[p] EXCEPT !.created =
                           OrderPayload(Len(orders) + 1, orders'[Len(orders) + 1])])
          ELSE /\ orders' = orders
               /\ Return(p, Result(IF outcome = "empty" THEN "insert_failed" ELSE "error",
                                   FALSE, <<>>))
    /\ UNCHANGED <<now, quotations, everPaid>>

\* update of the quotation status, and the final returns
CreateOrderUpdate(p) ==
    /\ pc[p] = "co_update"
    /\ \E outcome \in StoreOutcomes :
          IF outcome = "ok"
          THEN /\ quotations' = [quotations EXCEPT
                                    ![call[p].quotation_id].status = "accepted"]
               /\ Return(p, Result("created", TRUE, call[p].created))
          ELSE /\ quotations' = quotations
               /\ Return(p, Result("error", FALSE, <<>>))
    /\ UNCHANGED <<now, orders, everPaid>>

(***************************************************************************)
(* update_order_payment                                                    *)
(***************************************************************************)
\* select the order, and the not-found return
UpdateOrderPaymentFetch(p, in) ==
    /\ pc[p] = "idle"
    /\ \E order_id \in 1..(MaxOrders + 1), payment_status \in in.statuses,
          payment_date \in in.dates, outcome \in StoreOutcomes :
          IF outcome = "raise" THEN Return(p, Raised)
          ELSE IF order_id \notin DOMAIN orders
               THEN Return(p, Result("order_not_found", FALSE, <<>>))
          ELSE Goto(p, "uop_update",
                    [NoCall EXCEPT !.op = "update_order_payment",
                                   !.order_id = order_id,
                                   !.payment_status = payment_status,
                                   !.payment_date = payment_date])
    /\ UNCHANGED <<now, quotations, orders, everPaid>>

\* build update_data, update the order row, and the returns
UpdateOrderPaymentUpdate(p) ==
    /\ pc[p] = "uop_update"
    /\ \E outcome \in InsertOutcomes :
          LET id == call[p].order_id
          IN  IF outcome = "ok"
              THEN /\ orders' = [orders EXCEPT ![id] =
                          UpdateData(@, call[p].payment_status, call[p].payment_date, now)]
                   /\ everPaid' = IF call[p].payment_status = "paid"
                                  THEN everPaid \cup {id} ELSE everPaid
                   /\ Return(p, Result("updated", TRUE, OrderPayload(id, orders'[id])))
              ELSE /\ UNCHANGED <<orders, everPaid>>
                   /\ Return(p, Result(IF outcome = "empty" THEN "update_failed" ELSE "error",
                                       FALSE, <<>>))
    /\ UNCHANGED <<now, quotations>>

(***************************************************************************)
(* Specifications.                                                         *)
(***************************************************************************)
AllIdle == \A q \in Procs : pc[q] = "idle"

\* tool calls run one after another: a call starts only when no call is running
Next ==
    \/ Tick
    \/ \E p \in Procs : AllIdle /\ CreateQuotationFetch(p, Wide)
    \/ \E p \in Procs : CreateQuotationInsert(p, Wide)
    \/ \E p \in Procs : AllIdle /\ CreateOrderFetch(p, Wide)
    \/ \E p \in Procs : CreateOrderCheck(p)
    \/ \E p \in Procs : CreateOrderInsert(p, Wide)
    \/ \E p \in Procs : CreateOrderUpdate(p)
    \/ \E p \in Procs : AllIdle /\ UpdateOrderPaymentFetch(p, Wide)
    \/ \E p \in Procs : UpdateOrderPaymentUpdate(p)

Spec == Init /\ [][Next]_vars

\* the tool calls of several callers interleave statement by statement
NextConcurrent ==
    \/ Tick
    \/ \E p \in Procs : CreateQuotationFetch(p, Narrow)
    \/ \E p \in Procs : CreateQuotationInsert(p, Narrow)
    \/ \E p \in Procs : CreateOrderFetch(p, Narrow)
    \/ \E p \in Procs : CreateOrderCheck(p)
    \/ \E p \in Procs : CreateOrderInsert(p, Narrow)
    \/ \E p \in Procs : CreateOrderUpdate(p)
    \/ \E p \in Procs : UpdateOrderPaymentFetch(p, Narrow)
    \/ \E p \in Procs : UpdateOrderPaymentUpdate(p)

SpecConcurrent == Init /\ [][NextConcurrent]_vars

(***************************************************************************)
(* get_order_status                                                        *)
(***************************************************************************)
\* an order number no row carries
UnknownOrderNumber == GenerateNumber("ORD", 0, "NONE")

\* select("*").eq("order_number", order_number) on orders: ids in row order
OrdersOfNumber(tbl, order_number) ==
    { i \in DOMAIN tbl : tbl[i].order_number = order_number }

\* the two selects and the returns; the tool writes nothing
GetOrderStatus(p) ==
    /\ pc[p] = "idle"
    /\ \E order_number \in { orders[i].order_number : i \in DOMAIN orders }
                             \cup {UnknownOrderNumber},
          outcome \in StoreOutcomes :
          LET found == OrdersOfNumber(orders, order_number)
              id == CHOOSE i \in found : \A j \in found : i <= j
          IN  IF outcome = "raise" THEN Return(p, Raised)
              ELSE IF found = {}
                   THEN Return(p, Result("status_not_found", FALSE, <<>>))
              ELSE Return(p, Result("order_found", TRUE, OrderPayload(id, orders[id])))
    /\ UNCHANGED <<now, quotations, orders, everPaid>>

\* the four tools of the order lifecycle, called one after another
NextTools ==
    \/ Tick
    \/ \E p \in Procs : AllIdle /\ CreateQuotationFetch(p, Wide)
    \/ \E p \in Procs : CreateQuotationInsert(p, Wide)
    \/ \E p \in Procs : AllIdle /\ CreateOrderFetch(p, Wide)
    \/ \E p \in Procs : CreateOrderCheck(p)
    \/ \E p \in Procs : CreateOrderInsert(p, Wide)
    \/ \E p \in Procs : CreateOrderUpdate(p)
    \/ \E p \in Procs : AllIdle /\ UpdateOrderPaymentFetch(p, Wide)
    \/ \E p \in Procs : UpdateOrderPaymentUpdate(p)
    \/ \E p \in Procs : AllIdle /\ GetOrderStatus(p)

SpecTools == Init /\ [][NextTools]_vars

\* quotations and orders are created one after another, one quotation more
NextNumbers ==
    \/ Tick
    \/ \E p \in Procs : AllIdle /\ CreateQuotationFetch(p, Twice)
    \/ \E p \in Procs : CreateQuotationInsert(p, Twice)
    \/ \E p \in Procs : AllIdle /\ CreateOrderFetch(p, Twice)
    \/ \E p \in Procs : CreateOrderCheck(p)
    \/ \E p \in Procs : CreateOrderInsert(p, Twice)
    \/ \E p \in Procs : CreateOrderUpdate(p)

SpecNumbers == Init /\ [][NextNumbers]_vars

TypeOK ==
    /\ now \in 0..MaxNow
    /\ Len(quotations) <= MaxQuotations
    /\ Len(orders) <= MaxOrders

(***************************************************************************)
(* Properties of the order and payment lifecycle.                          *)
(***************************************************************************)
\* caller p leaves the validity check of create_order in this step
LeavesCheck(p) == pc[p] = "co_check" /\ pc'[p] # "co_check"

\* the validity check let the call through to the existing-order lookup
PassedValidity(p) == pc'[p] = "co_insert" \/ ret'.kind \in {"exists", "raised"}

OrderIdsOf(quotation_id) ==
    {id \in DOMAIN orders : orders[id].quotation_id = quotation_id}

\* an earlier create_order on the quotation succeeded: its order is stored and
\* the quotation was flipped to accepted
OrderedSuccessfully(quotation_id) ==
    /\ quotation_id \in DOMAIN quotations
    /\ quotations[quotation_id].status = "accepted"
    /\ OrderIdsOf(quotation_id) # {}

\* the result repeats the stored order
ReturnsStoredOrder(quotation_id) ==
    /\ ret'.success
    /\ Len(ret'.order) = 1
    /\ \E id \in OrderIdsOf(quotation_id) :
          /\ ret'.order[1].order_id = id
          /\ ret'.order[1].order_number = orders[id].order_number
          /\ ret'.order[1].policy_number = orders[id].policy_number

\* C2 (as stated): once a create_order on a quotation has succeeded, every
\* later create_order on it that returns, whatever its payment method,
\* returns success with the stored order's id, order number and policy number,
\* inserts no second order and leaves the stored order unchanged.
C2_IdempotentAlways ==
    [][\A p \in Procs :
          (LeavesCheck(p) /\ OrderedSuccessfully(call[p].quotation_id)) =>
              /\ pc'[p] = "idle" /\ orders' = orders
              /\ ret'.kind # "raised" => ReturnsStoredOrder(call[p].quotation_id)]_vars

\* C2 (amended): the same, for the later calls whose validity check runs at a
\* time now <= valid_until; a later call made after valid_until is refused as
\* expired; in both cases no second order is inserted and the stored order is
\* left unchanged.
C2_IdempotentWhileValid ==
    [][\A p \in Procs :
          (LeavesCheck(p) /\ OrderedSuccessfully(call[p].quotation_id)) =>
              /\ pc'[p] = "idle" /\ orders' = orders
              /\ Cardinality(OrderIdsOf(call[p].quotation_id)) = 1
              /\ (ret'.kind # "raised" /\ now <= call[p].quotation[1].valid_until)
                    => ReturnsStoredOrder(call[p].quotation_id)
              /\ now > call[p].quotation[1].valid_until => ret'.kind = "expired"]_vars

\* C2 witness: a second create_order has just returned the stored order of an
\* accepted quotation
C2_Witness ==
    /\ ret.kind = "exists" /\ ret.success
    /\ Len(orders) = 1 /\ quotations[orders[1].quotation_id].status = "accepted"
    /\ ret.order[1].order_id = 1
    /\ ret.order[1].order_number = orders[1].order_number

\* C3 (as stated): at most one order row exists per quotation, in every
\* interleaving of concurrent create_order calls.
C3_AtMostOneOrderPerQuotation ==
    \A quotation_id \in DOMAIN quotations : Cardinality(OrderIdsOf(quotation_id)) <= 1

\* C4: an order's policy_status is active if and only if an update with
\* payment_status paid has been applied to it; a new order is inactive.
C4_ActiveIffEverPaid ==
    \A id \in DOMAIN orders : (orders[id].policy_status = "active") <=> (id \in everPaid)

\* C4 witness: an order that was paid and then refunded still has an active policy
C4_Witness ==
    \E id \in DOMAIN orders :
        /\ id \in everPaid
        /\ orders[id].policy_status = "active"
        /\ orders[id].payment_status = "refunded"

\* the payment_status transitions of the documented life cycle
AllowedTransitions ==
    { <<"pending", "awaiting_confirmation">>,
      <<"awaiting_confirmation", "paid">>,
      <<"awaiting_confirmation", "failed">>,
      <<"paid", "refunded">> }

\* C5 (as stated): payment_status changes only along pending ->
\* awaiting_confirmation -> {paid, failed} and paid -> refunded.
C5_OnlyAllowedTransitions ==
    [][\A id \in DOMAIN orders :
          orders'[id].payment_status # orders[id].payment_status =>
              <<orders[id].payment_status, orders'[id].payment_status>>
                  \in AllowedTransitions]_vars

\* C6 (as stated): every stored payment_status is one of pending,
\* awaiting_confirmation, paid, failed, refunded.
C6_PaymentStatusInDomain ==
    \A id \in DOMAIN orders :
        orders[id].payment_status \in
            {"pending", "awaiting_confirmation", "paid", "failed", "refunded"}

\* C7 (as stated): an order with a payment_date has been updated with
\* payment_status paid (payment_date is set only when the status becomes paid).
C7_DatedOnlyWhenPaid ==
    \A id \in DOMAIN orders : orders[id].payment_date # NoDate => id \in everPaid

\* C8 (as stated): a new order is stored with payment_status pending when the
\* payment method is None or "pending" and awaiting_confirmation otherwise,
\* and with policy_status inactive.
C8_InitialStatusByMethod ==
    [][Len(orders') > Len(orders) =>
          LET row == orders'[Len(orders')]
          IN  /\ row.payment_status =
                    IF row.payment_method \in {None, "pending"}
                    THEN "pending" ELSE "awaiting_confirmation"
              /\ row.policy_status = "inactive"]_vars

\* C9 (as stated): once the create_order that inserted an order has completed,
\* the order's quotation is accepted.
C9_OrderImpliesAccepted ==
    \A id \in DOMAIN orders :
        (\A p \in Procs : ~(pc[p] = "co_update" /\ call[p].created[1].order_id = id))
            => quotations[orders[id].quotation_id].status = "accepted"

\* C10: every order's policy window is 365 days long and starts on the day
\* the order was created, and no step changes the window of a stored order.
C10_PolicyWindow ==
    /\ [](\A id \in DOMAIN orders :
             /\ orders[id].policy_end_date - orders[id].policy_start_date = 365
             /\ orders[id].policy_start_date = orders[id].created_at \div TicksPerDay)
    /\ [][\A id \in DOMAIN orders :
             /\ orders'[id].policy_start_date = orders[id].policy_start_date
             /\ orders'[id].policy_end_date = orders[id].policy_end_date]_vars

\* C10 witness: an order created on a later day has been paid and keeps its
\* 365-day window
C10_Witness ==
    \E id \in DOMAIN orders :
        /\ orders[id].created_at > TicksPerDay
        /\ orders[id].payment_status = "paid" /\ id \in everPaid
        /\ orders[id].policy_end_date = orders[id].policy_start_date + 365

(***************************************************************************)
(* search_quotation_details: the vehicle search cascade.                   *)
(***************************************************************************)
\* str.lower() of one word, as ilike compares without regard to case
LowerWord(w) ==
    CASE w = "Honda" -> "honda"
      [] w = "Toyota" -> "toyota"
      [] w = "Kia" -> "kia"
      [] w = "Civic" -> "civic"
      [] w = "Accord" -> "accord"
      [] w = "Camry" -> "camry"
      [] w = "Jazz" -> "jazz"
      [] w = "e:HEV" -> "e:hev"
      [] w = "RS" -> "rs"
      [] w = "GT" -> "gt"
      [] w = "Type" -> "type"
      [] w = "R" -> "r"
      [] w = "Turbo" -> "turbo"
      [] w = "Hybrid" -> "hybrid"
      [] w = "Premium" -> "premium"
      [] OTHER -> w

Lower(text) == [i \in DOMAIN text |-> LowerWord(text[i])]

\* text contains the words of part, next to each other and in order
Contains(text, part) ==
    \E i \in 0..(Len(text) - Len(part)) :
        SubSeq(text, i + 1, i + Len(part)) = part

\* q.ilike(column, f"%{pattern}%")
ILike(value, pattern) == Contains(Lower(value), Lower(pattern))

\* str.strip(chars): drop the leading and trailing words that are in junk
Strip(text, junk) ==
    LET keep == { i \in DOMAIN text : text[i] \notin junk }
    IN  IF keep = {} THEN <<>>
        ELSE SubSeq(text, CHOOSE i \in keep : \A j \in keep : i <= j,
                          CHOOSE i \in keep : \A j \in keep : i >= j)

\* _clean_sub_model: every year word is replaced by "", which leaves its
\* spaces behind (an empty word), then the ends are stripped
clean_sub_model(sub_model) ==
    LET blanked == [i \in DOMAIN sub_model |->
                       IF sub_model[i] \in YearWords THEN "" ELSE sub_model[i]]
    IN  Strip(Strip(Strip(blanked, {""}), {"-"}), {""})

\* _run_query: a filter is added only for an argument that is truthy
run_query(b, m, s, y) ==
    { r \in vw_quotation_details :
        /\ b # <<>> => ILike(r.brand, b)
        /\ m # <<>> => ILike(r.model, m)
        /\ s # <<>> => ILike(r.sub_model, s)
        /\ y # 0 => r.year = y }

\* variant: attempt 3 drops the year together with the sub_model
AttemptArgs_ThreeDropsYear(attempt, brand, model, sub_model, year) ==
    CASE attempt = 1 -> <<brand, model, sub_model, year>>
      [] attempt = 2 -> <<brand, model, sub_model, 0>>
      [] attempt = 3 -> <<brand, model, <<>>, 0>>
      [] attempt = 4 -> <<brand, model, <<>>, 0>>
      [] attempt = 5 -> <<brand, <<>>, <<>>, 0>>

\* the arguments each attempt passes to _run_query
AttemptArgs(attempt, brand, model, sub_model, year) ==
    CASE attempt = 1 -> <<brand, model, sub_model, year>>
      [] attempt = 2 -> <<brand, model, sub_model, 0>>
      [] attempt = 3 -> <<brand, model, <<>>, year>>
      [] attempt = 4 -> <<brand, model, <<>>, 0>>
      [] attempt = 5 -> <<brand, <<>>, <<>>, 0>>

\* select("brand, model, sub_model, year") of the whole view
FullCatalogue ==
    { [brand |-> r.brand, model |-> r.model,
       sub_model |-> r.sub_model, year |-> r.year] : r \in vw_quotation_details }

\* the "result" texts of the tool
MsgNeedAttribute ==
    <<"Error: You must provide at least one of brand, model, sub_model, or year.">>
MsgExact == <<"Found quotation details.">>
\* variant: the year-relaxed attempt reports its rows as an exact match
MsgYearRelaxed_AsExact == <<"Found quotation details.">>
MsgYearRelaxed == <<"Found quotation details (year relaxed).">>
MsgSubModelRelaxed(sub_model) ==
    <<"No exact match for sub_model '", sub_model,
      "'. Here are available trims - pick the closest one.">>
MsgBrandModel(brand, model, sub_model) ==
    <<"Could not match '", sub_model,
      "' trim. Here are all available variants for ", brand, " ", model, ".">>
MsgBrandOnly(brand) ==
    <<"Could not find exact model. Here are all available ", brand, " vehicles.">>
MsgCatalogue ==
    <<"No matching vehicle found. Here is the full catalogue to help you select the correct car.">>

\* what a call hands back: the payload, the attempt that produced it and the
\* store queries the call issued, in order
SearchResult(attempt, message, records, queries) ==
    [kind |-> "result", attempt |-> attempt, message |-> message,
     records |-> records, queries |-> queries]

SearchRaised(queries) ==
    [kind |-> "raised", attempt |-> 0, message |-> <<>>,
     records |-> {}, queries |-> queries]

\* variant: the guard on the arguments is missing
AnySupplied_Always(brand, model, sub_model, year) == TRUE

\* any([brand, model, sub_model, year])
AnySupplied(brand, model, sub_model, year) ==
    brand # <<>> \/ model # <<>> \/ sub_model # <<>> \/ year # 0

\* the body of search_quotation_details after the store client is obtained;
\* outcome is what the store does with the first query
search_quotation_details(brand, model, sub_model_arg, year, outcome) ==
    IF ~AnySupplied(brand, model, sub_model_arg, year)
    THEN SearchResult(0, MsgNeedAttribute, {}, <<>>)
    ELSE
    LET sub_model == IF sub_model_arg # <<>> THEN clean_sub_model(sub_model_arg)
                     ELSE sub_model_arg
        Args(n) == AttemptArgs(n, brand, model, sub_model, year)
        Data(n) == run_query(Args(n)[1], Args(n)[2], Args(n)[3], Args(n)[4])
        q1 == <<Args(1)>>
        q2 == IF year # 0 THEN Append(q1, Args(2)) ELSE q1
        q3 == IF sub_model # <<>> THEN Append(q2, Args(3)) ELSE q2
        q4 == IF brand # <<>> \/ model # <<>> THEN Append(q3, Args(4)) ELSE q3
        q5 == IF brand # <<>> THEN Append(q4, Args(5)) ELSE q4
    IN  IF outcome = "raise" THEN SearchRaised(q1)
        ELSE IF Data(1) # {}
        THEN SearchResult(1, MsgExact, Data(1), q1)
        ELSE IF year # 0 /\ Data(2) # {}
        THEN SearchResult(2, MsgYearRelaxed, Data(2), q2)
        ELSE IF sub_model # <<>> /\ Data(3) # {}
        THEN SearchResult(3, MsgSubModelRelaxed(sub_model), Data(3), q3)
        ELSE IF (brand # <<>> \/ model # <<>>) /\ Data(4) # {}
        THEN SearchResult(4, MsgBrandModel(brand, model, sub_model), Data(4), q4)
        ELSE IF brand # <<>> /\ Data(5) # {}
        THEN SearchResult(5, MsgBrandOnly(brand), Data(5), q5)
        ELSE SearchResult(6, MsgCatalogue, FullCatalogue, Append(q5, <<"catalogue">>))

\* one call of the tool
SearchQuotationDetails ==
    /\ \E brand \in BrandArgs, model \in ModelArgs,
          sub_model \in SubModelArgs, year \in YearArgs,
          outcome \in StoreOutcomes :
          search' = [state |-> "done",
                     brand |-> brand, model |-> model,
                     sub_model |-> sub_model, year |-> year,
                     result |-> search_quotation_details(
                                    brand, model, sub_model, year, outcome)]
    /\ UNCHANGED <<lifecycleVars, chat_sessions, rq, ingestVars>>

NextSearch == SearchQuotationDetails

SpecSearch == Init /\ [][NextSearch]_vars

(***************************************************************************)
(* Properties of the search cascade.                                       *)
(***************************************************************************)
\* a call that supplied an attribute and got its payload back
Searched == search.state = "done" /\ search.result.kind = "result"
                /\ search.result.attempt >= 1

\* the sub_model the attempts work with
SearchedSubModel ==
    IF search.sub_model # <<>> THEN clean_sub_model(search.sub_model) ELSE <<>>

\* the rows that match the attributes attempt n keeps
StepSet(n) ==
    LET b == search.brand
        m == search.model
        s == SearchedSubModel
        y == search.year
    IN  CASE n = 1 -> run_query(b, m, s, y)
          [] n = 2 -> run_query(b, m, s, 0)
          [] n = 3 -> run_query(b, m, <<>>, y)
          [] n = 4 -> run_query(b, m, <<>>, 0)
          [] n = 5 -> run_query(b, <<>>, <<>>, 0)

\* the arguments attempt n queries the store with
StepQuery(n) ==
    LET b == search.brand
        m == search.model
        s == SearchedSubModel
        y == search.year
    IN  CASE n = 1 -> <<b, m, s, y>>
          [] n = 2 -> <<b, m, s, 0>>
          [] n = 3 -> <<b, m, <<>>, y>>
          [] n = 4 -> <<b, m, <<>>, 0>>
          [] n = 5 -> <<b, <<>>, <<>>, 0>>
          [] n = 6 -> <<"catalogue">>

\* attempt n applies to the call: the attribute it drops or keeps was supplied
StepApplies(n) ==
    CASE n = 1 -> TRUE
      [] n = 2 -> search.year # 0
      [] n = 3 -> SearchedSubModel # <<>>
      [] n = 4 -> search.brand # <<>> \/ search.model # <<>>
      [] n = 5 -> search.brand # <<>>
      [] n = 6 -> TRUE

\* C11: the cascade tries (1) all attributes, (2) year dropped, (3) sub_model
\* dropped with the year kept, (4) brand + model, (5) brand, (6) the full
\* catalogue, in that order; it returns the rows of the first applicable
\* attempt that has any, never those of a later attempt and never a union;
\* when year and sub_model match nothing it returns the brand + model rows if
\* there are any, and the brand rows only when there are no brand + model rows.
C11_FirstNonEmptyStep ==
    Searched =>
        LET n == search.result.attempt
            tried == { j \in 1..n : StepApplies(j) }
        IN  /\ n \in 1..6
            /\ Len(search.result.queries) = Cardinality(tried)
            /\ \A j \in tried :
                  search.result.queries[Cardinality({ k \in tried : k <= j })]
                      = StepQuery(j)
            /\ \A j \in 1..5 : j < n /\ StepApplies(j) => StepSet(j) = {}
            /\ n <= 5 => /\ StepApplies(n)
                         /\ search.result.records = StepSet(n)
                         /\ StepSet(n) # {}
            /\ n = 6 => search.result.records = FullCatalogue
            /\ (StepSet(1) = {} /\ StepSet(2) = {} /\ StepSet(3) = {}
                  /\ search.brand # <<>> /\ search.model # <<>>) =>
                    /\ StepSet(4) # {} => search.result.records = StepSet(4)
                    /\ n = 5 => StepSet(4) = {}

\* a call with all four attributes whose year and sub_model match nothing and
\* whose brand + model rows are fewer than its brand rows
C11_Witness ==
    /\ Searched
    /\ search.brand # <<>> /\ search.model # <<>>
    /\ search.sub_model # <<>> /\ search.year # 0
    /\ search.result.attempt = 4
    /\ StepSet(4) # StepSet(5)
    /\ StepSet(3) # StepSet(4)

\* C12: the whole catalogue is handed back only by the last-resort attempt,
\* cut down to brand, model, sub_model and year, and only when every narrower
\* attempt matched nothing; no earlier attempt returns every row of the view
\* (for example for a call with only a year, or only a sub_model, that matches
\* no row).
C12_FullCatalogueOnlyLastResort ==
    Searched =>
        /\ search.result.attempt <= 5 =>
              search.result.records # vw_quotation_details
        /\ search.result.attempt = 6 =>
              /\ search.result.records = FullCatalogue
              /\ \A j \in 1..5 : StepApplies(j) => StepSet(j) = {}

\* C13: a payload produced by one of the fallback attempts 2..6 carries a
\* message that differs from the message of an exact match.
C13_FallbackMessageDiffers ==
    Searched /\ search.result.attempt >= 2 =>
        search.result.message # MsgExact

\* the year-relaxed attempt produced the payload
C13_Witness ==
    /\ Searched
    /\ search.result.attempt = 2
    /\ search.result.records # {}

\* the call supplied none of brand, model, sub_model, year
NothingSupplied ==
    /\ search.state = "done"
    /\ search.brand = <<>> /\ search.model = <<>>
    /\ search.sub_model = <<>> /\ search.year = 0

\* C14: a call with none of brand, model, sub_model, year gets the "need at
\* least one attribute" error and issues no query against the store.
C14_NoAttributeNoQuery ==
    NothingSupplied =>
        /\ search.result.kind = "result"
        /\ search.result.message = MsgNeedAttribute
        /\ search.result.records = {}
        /\ search.result.queries = <<>>

C14_Witness == NothingSupplied /\ search.result.message = MsgNeedAttribute

(***************************************************************************)
(* The chat endpoints: POST /api/chat and POST /api/chat/stream.           *)
(*                                                                         *)
(* One request of one session is followed from its arrival to its end.     *)
(* A text is a sequence of pieces, joined by \o; <<>> is the empty string. *)
(***************************************************************************)
Endpoints == {"chat", "stream"}
UserMessages == {<<"quote my car">>}
LlmModels == {"gemini-2.5-flash", None}
\* what the model may say in a round that requests tools, and in a final round
ToolRoundTexts == {<<>>, <<"Let me check. ">>}
FinalTexts == {<<>>, <<"Here is your quotation.">>}
ModelOutputs ==
    [text : ToolRoundTexts, tool_calls : {TRUE}]
        \cup [text : FinalTexts, tool_calls : {FALSE}]

\* the rows a session holds when the request arrives: n earlier messages
MaxStored == HistoryLimit + MaxExtra
StoredMessages(n) ==
    [i \in 1..n |-> [role |-> IF i % 2 = 1 THEN "user" ELSE "ai",
                     message |-> <<"message", i>>]]

\* _fetch_history: order("created_at", desc=False).limit(limit)
fetch_history(table, limit) ==
    SubSeq(table, 1, IF Len(table) > limit THEN limit ELSE Len(table))

\* build_chat_history: HumanMessage for "user", AIMessage for "ai"
build_chat_history(raw_history) ==
    LET known == SelectSeq(raw_history, LAMBDA r : r.role \in {"user", "ai"})
    IN  [i \in DOMAIN known |->
            [type |-> IF known[i].role = "user" THEN "human" ELSE "ai",
             content |-> known[i].message]]

RECURSIVE JoinTexts(_)
\* "".join(full_reply) over the text of every model output of the run
JoinTexts(outputs) ==
    IF outputs = <<>> THEN <<>>
    ELSE outputs[1].text \o JoinTexts(Tail(outputs))

\* /api/chat/stream: every on_chat_model_stream chunk is appended to full_reply
StreamingReply(outputs) == JoinTexts(outputs)

\* /api/chat: str(result["messages"][-1].content)
NonStreamingReply(outputs) == outputs[Len(outputs)].text

\* the SSE events one model output makes the stream yield
EventsOf(output) ==
    (IF output.text # <<>> THEN <<"token">> ELSE <<>>)
        \o (IF output.tool_calls THEN <<"tool_start", "tool_end">> ELSE <<>>)

\* the request ends on an exception raised before the loop, inside the loop,
\* or after the loop
FailOutsideTry(r) ==
    IF r.endpoint = "chat"
    THEN [r EXCEPT !.pc = "done", !.response = "500"]
    ELSE [r EXCEPT !.pc = "done", !.response = "aborted"]

FailInsideTry(r) ==
    IF r.endpoint = "chat"
    THEN [r EXCEPT !.pc = "done", !.response = "500"]
    ELSE [r EXCEPT !.pc = "done", !.response = "ended",
                   !.events = Append(r.events, "error")]

\* a request arrives: _fetch_history, build_chat_history, create_agent_executor.
\* /api/chat does this inside its try, /api/chat/stream before its try.
ChatStart ==
    /\ rq.pc = "idle"
    /\ \E endpoint \in Endpoints, message \in UserMessages,
          llm_model \in LlmModels, outcome \in StoreOutcomes :
          LET raw_history == IF outcome = "ok"
                             THEN fetch_history(chat_sessions, HistoryLimit)
                             ELSE <<>>
              r == [pc |-> "loop", endpoint |-> endpoint, message |-> message,
                    llm_model |-> llm_model,
                    history |-> build_chat_history(raw_history),
                    base |-> Len(chat_sessions),
                    outputs |-> <<>>, events |-> <<>>, ai_reply |-> <<>>,
                    response |-> "none"]
          IN  rq' = IF outcome = "ok" THEN r ELSE FailOutsideTry(r)
    /\ UNCHANGED <<lifecycleVars, search, chat_sessions, ingestVars>>

\* one round of the agent executor: the model answers with final text, or asks
\* for tools, which run before the next round; or the round raises.  The
\* executor is built without a round limit (agent.py:82-86).
AgentRound ==
    /\ rq.pc = "loop"
    /\ \E outcome \in StoreOutcomes, output \in ModelOutputs :
          IF outcome = "raise" THEN rq' = FailInsideTry(rq)
          ELSE
            /\ output.tool_calls => Len(rq.outputs) < MaxRounds
            /\ LET outputs == Append(rq.outputs, output)
                   reply == IF rq.endpoint = "stream"
                            THEN StreamingReply(outputs)
                            ELSE NonStreamingReply(outputs)
               IN  rq' = [rq EXCEPT
                            !.outputs = outputs,
                            !.events = IF rq.endpoint = "stream"
                                       THEN rq.events \o EventsOf(output)
                                       ELSE rq.events,
                            !.ai_reply = IF output.tool_calls THEN <<>> ELSE reply,
                            !.pc = IF output.tool_calls THEN "loop"
                                   ELSE IF rq.endpoint = "stream" /\ reply = <<>>
                                   THEN "finish"
                                   ELSE "save_user"]
    /\ UNCHANGED <<lifecycleVars, search, chat_sessions, ingestVars>>

\* _save_message(session_id, "user", request.message)
SaveUserMessage ==
    /\ rq.pc = "save_user"
    /\ \E outcome \in StoreOutcomes :
          IF outcome = "ok"
          THEN /\ chat_sessions' = Append(chat_sessions,
                      [role |-> "user", message |-> rq.message])
               /\ rq' = [rq EXCEPT !.pc = "save_ai"]
          ELSE /\ rq' = FailOutsideTry(rq)
               /\ UNCHANGED chat_sessions
    /\ UNCHANGED <<lifecycleVars, search, ingestVars>>

\* _save_message(session_id, "ai", ai_reply)
SaveAiMessage ==
    /\ rq.pc = "save_ai"
    /\ \E outcome \in StoreOutcomes :
          IF outcome = "ok"
          THEN /\ chat_sessions' = Append(chat_sessions,
                      [role |-> "ai", message |-> rq.ai_reply])
               /\ rq' = [rq EXCEPT !.pc = "finish"]
          ELSE /\ rq' = FailOutsideTry(rq)
               /\ UNCHANGED chat_sessions
    /\ UNCHANGED <<lifecycleVars, search, ingestVars>>

\* /api/chat builds its ChatResponse, whose model_used must be a str;
\* /api/chat/stream yields its done event
Finish ==
    /\ rq.pc = "finish"
    /\ rq' = IF rq.endpoint = "chat"
             THEN IF rq.llm_model = None
                  THEN FailOutsideTry(rq)
                  ELSE [rq EXCEPT !.pc = "done", !.response = "200"]
             ELSE [rq EXCEPT !.pc = "done", !.response = "ended",
                             !.events = Append(rq.events, "done")]
    /\ UNCHANGED <<lifecycleVars, search, chat_sessions, ingestVars>>

\* the session already holds any number of messages when the request arrives
InitChat ==
    /\ now = 0
    /\ quotations = <<>>
    /\ orders = <<>>
    /\ pc = [p \in Procs |-> "idle"]
    /\ call = [p \in Procs |-> NoCall]
    /\ ret = NoResult
    /\ everPaid = {}
    /\ search = NoSearch
    /\ chat_sessions \in { StoredMessages(n) : n \in 0..MaxStored }
    /\ rq = NoRequest
    /\ policy_documents = <<>>
    /\ run = NoRun
    /\ rag = NoRag

NextChat ==
    \/ ChatStart
    \/ AgentRound
    \/ SaveUserMessage
    \/ SaveAiMessage
    \/ Finish

SpecChat == InitChat /\ [][NextChat]_vars

ChatTypeOK ==
    /\ rq.pc \in {"idle", "loop", "save_user", "save_ai", "finish", "done"}
    /\ Len(chat_sessions) <= MaxStored + 2

(***************************************************************************)
(* Properties of the chat endpoints and of the tools as the loop sees them.*)
(***************************************************************************)
\* the rows the request has appended to the session so far
Appended == SubSeq(chat_sessions, rq.base + 1, Len(chat_sessions))

\* the model has given its final text: the loop of the request is over
LoopCompleted ==
    /\ rq.pc \in {"save_user", "save_ai", "finish", "done"}
    /\ rq.outputs # <<>>
    /\ ~rq.outputs[Len(rq.outputs)].tool_calls

\* the request ran to its successful end
Succeeded ==
    /\ rq.pc = "done"
    /\ \/ rq.endpoint = "chat" /\ rq.response = "200"
       \/ /\ rq.endpoint = "stream" /\ rq.response = "ended"
          /\ rq.events # <<>> /\ rq.events[Len(rq.events)] = "done"

\* C15: a request whose model asks for tools on every round is stopped after
\* exactly 8 rounds: the loop never starts a ninth tool-calling round.
C15_StopsAfterEightRounds ==
    rq.pc = "loop" => Len(rq.outputs) <= 8

\* C16: a request that completes successfully, on either endpoint, has
\* appended exactly the user message and then the assistant's final text if
\* that text is non-empty, and nothing if it is empty.
C16_AppendsPairIffText ==
    Succeeded =>
        IF rq.ai_reply # <<>>
        THEN Appended = << [role |-> "user", message |-> rq.message],
                           [role |-> "ai", message |-> rq.ai_reply] >>
        ELSE Appended = <<>>

\* C17: for the same model outputs, including runs whose tool-calling rounds
\* carry text, the assistant text the streaming endpoint persists equals the
\* text the non-streaming endpoint persists.
C17_SameTextBothEndpoints ==
    LoopCompleted => StreamingReply(rq.outputs) = NonStreamingReply(rq.outputs)

\* C18: every stream of /api/chat/stream ends with exactly one terminal event,
\* done or error, with nothing after it, whatever stage of the request fails.
C18_OneTerminalEvent ==
    rq.pc = "done" /\ rq.endpoint = "stream" =>
        /\ rq.events # <<>>
        /\ rq.events[Len(rq.events)] \in {"done", "error"}
        /\ \A i \in 1..(Len(rq.events) - 1) : rq.events[i] \notin {"done", "error"}

\* C19: no tool call raises to the loop; every failure inside a tool comes
\* back as a {success: false, result} payload.
C19_NoToolRaises ==
    /\ ret.kind # "raised"
    /\ search.state = "done" => search.result.kind # "raised"

\* C20: the history handed to the loop is the session's earlier messages in
\* stored order, and it includes the last stored message however many
\* messages the session holds.
C20_HistoryHasLastMessage ==
    rq.pc = "loop" /\ chat_sessions # <<>> =>
        /\ rq.history # <<>>
        /\ rq.history[Len(rq.history)].content
              = chat_sessions[Len(chat_sessions)].message
        /\ \A i \in 1..(Len(rq.history) - 1) :
              \E j \in 1..(Len(chat_sessions) - 1) :
                  /\ rq.history[i].content = chat_sessions[j].message
                  /\ rq.history[i + 1].content = chat_sessions[j + 1].message

(***************************************************************************)
(* Properties of create_quotation and of the checks of create_order.       *)
(***************************************************************************)
\* the joined vehicle + plan records of a (car_model_id, plan_id) pair
RecordsOf(car_model_id, plan_id) ==
    { d \in vw_quotation_details :
        d.car_model_id = car_model_id /\ d.plan_id = plan_id }

\* C21: a create_quotation whose (car_model_id, plan_id) pair has no joined
\* record fails with NotFound and writes no quotation; a call that finds the
\* record and whose insert the store applies writes exactly one new quotation:
\* status draft, total_premium the record's base premium, owned by the calling
\* session.  No quotation is ever stored for a pair without a record.
C21_QuotationFromRecord ==
    /\ [](\A i \in DOMAIN quotations :
             /\ RecordsOf(quotations[i].car_model_id, quotations[i].plan_id) # {}
             /\ \A d \in RecordsOf(quotations[i].car_model_id, quotations[i].plan_id) :
                   quotations[i].total_premium = d.base_premium)
    /\ [][\A p \in Procs :
            /\ pc[p] = "idle" /\ pc'[p] = "idle" /\ ret'.kind = "not_found"
                  => quotations' = quotations
            /\ pc[p] = "idle" /\ pc'[p] = "cq_insert"
                  => /\ call'[p].details[1] \in vw_quotation_details
                     /\ quotations' = quotations
            /\ pc[p] = "cq_insert" /\ pc'[p] = "idle"
                  => IF ret'.success
                     THEN /\ Len(quotations') = Len(quotations) + 1
                          /\ SubSeq(quotations', 1, Len(quotations)) = quotations
                          /\ LET q == quotations'[Len(quotations')]
                             IN  /\ q.status = "draft"
                                 /\ q.total_premium = call[p].details[1].base_premium
                                 /\ q.car_model_id = call[p].details[1].car_model_id
                                 /\ q.plan_id = call[p].details[1].plan_id
                                 /\ q.session_id = call[p].session_id
                     ELSE quotations' = quotations]_vars

\* a quotation has been written and a call for a pair without a record failed
C21_Witness ==
    /\ quotations # <<>>
    /\ ret.kind = "quotation_created"

\* C22: valid_until of every quotation is its creation time plus 30 days, and
\* no operation changes it afterwards.
C22_ValidUntilFixed ==
    /\ [](\A i \in DOMAIN quotations :
             quotations[i].valid_until
                 = quotations[i].created_at + ValidityDays * TicksPerDay)
    /\ [][\A i \in DOMAIN quotations :
             /\ i \in DOMAIN quotations'
             /\ quotations'[i].valid_until = quotations[i].valid_until
             /\ quotations'[i].created_at = quotations[i].created_at]_vars

\* a quotation created in the middle of a day has been accepted by an order
C22_Witness ==
    \E i \in DOMAIN quotations :
        /\ quotations[i].created_at % TicksPerDay # 0
        /\ quotations[i].status = "accepted"

\* C30: create_order checks NotFound, then Expired, then the existing order:
\* for a quotation that already has an order and whose valid_until has passed
\* it returns the Expired failure, not the existing order.
C30_ExpiredBeforeExisting ==
    [][\A p \in Procs :
          /\ pc[p] = "idle" /\ ret'.kind = "not_found" /\ call[p].op = "none"
                => orders' = orders
          /\ LeavesCheck(p) =>
                LET quotation == call[p].quotation[1]
                IN  (/\ OrdersOfQuotation(orders, call[p].quotation_id) # <<>>
                     /\ now > quotation.valid_until)
                        => /\ ret'.kind = "expired" /\ ~ret'.success
                           /\ ret'.order = <<>>
                           /\ orders' = orders]_vars

\* a call on an expired quotation that already has an order was turned down
C30_Witness ==
    /\ ret.kind = "expired"
    /\ \E i \in DOMAIN quotations :
          /\ now > quotations[i].valid_until
          /\ OrdersOfQuotation(orders, i) # <<>>

\* C23: generated numbers are globally unique: no two quotations share a
\* quotation number, no two orders share an order number, and no two orders
\* share a policy number, however many are created on the same date.
C23_NumbersUnique ==
    /\ \A i, j \in DOMAIN quotations :
          i # j => quotations[i].quotation_number # quotations[j].quotation_number
    /\ \A i, j \in DOMAIN orders :
          i # j => /\ orders[i].order_number # orders[j].order_number
                   /\ orders[i].policy_number # orders[j].policy_number

(***************************************************************************)
(* ingest_embeddings.py: the embedding ingestion run, and the query        *)
(* embedding of search_policy_documents.                                   *)
(*                                                                         *)
(* A vector is represented by the range of components of the provider's    *)
(* vector it holds: [first |-> 1, last |-> n] is a native vector of n      *)
(* components.  A null embedding is {}, a stored one is {vector}.          *)
(***************************************************************************)
PlanTypeArgs == {None, "Type 1"}
SectionArgs == {None, "Exclusion"}
\* the dimensionality of the provider's vectors
NativeDimensions ==
    {VECTOR_DIMENSIONS - 1, VECTOR_DIMENSIONS, VECTOR_DIMENSIONS + 1}

NativeVector(n) == [first |-> 1, last |-> n]
VectorLen(v) == v.last - v.first + 1

\* variant: the slice keeps the trailing k components, v[-k:]
Leading_Trailing(v, k) ==
    [first |-> IF VectorLen(v) > k THEN v.last - k + 1 ELSE v.first,
     last |-> v.last]

\* the slice v[:k]
Leading(v, k) ==
    [first |-> v.first,
     last |-> IF VectorLen(v) > k THEN v.first + k - 1 ELSE v.last]

\* trimmed = embedding[:VECTOR_DIMENSIONS]
TrimDocument(v) == Leading(v, VECTOR_DIMENSIONS)

\* variant: the query keeps its trailing components
TrimQuery_Trailing(v) == Leading_Trailing(v, QueryDimensions)

\* trimmed_query_embedding = query_embedding[:2000]
TrimQuery(v) == Leading(v, QueryDimensions)

\* the table before the first run: no document is embedded yet
InitialDocuments ==
    [i \in 1..MaxDocs |->
        [id |-> i,
         plan_type |-> IF i % 2 = 1 THEN "Type 1" ELSE "Type 2",
         section |-> IF i % 3 = 0 THEN "Exclusion" ELSE "Coverage",
         content |-> <<"clause", i>>,
         embedding |-> {}]]

\* variant: the null-embedding filter is left out
fetch_documents_All(table, force, plan_type, section) ==
    LET chosen == SelectSeq(table, LAMBDA row :
                      /\ plan_type # None => row.plan_type = plan_type
                      /\ section # None => row.section = section)
    IN  [k \in DOMAIN chosen |->
            [id |-> chosen[k].id, plan_type |-> chosen[k].plan_type,
             section |-> chosen[k].section, content |-> chosen[k].content]]

\* fetch_documents: select("id, plan_type, section, content"), the filters,
\* order("created_at", desc=False)
fetch_documents(table, force, plan_type, section) ==
    LET chosen == SelectSeq(table, LAMBDA row :
                      /\ ~force => row.embedding = {}
                      /\ plan_type # None => row.plan_type = plan_type
                      /\ section # None => row.section = section)
    IN  [k \in DOMAIN chosen |->
            [id |-> chosen[k].id, plan_type |-> chosen[k].plan_type,
             section |-> chosen[k].section, content |-> chosen[k].content]]

\* batch = docs[i : i + BATCH_SIZE]
BatchOf(r) ==
    SubSeq(r.docs, r.i + 1,
           IF r.i + BATCH_SIZE < Len(r.docs) THEN r.i + BATCH_SIZE ELSE Len(r.docs))

\* the loop enters the batch that starts at offset i
StartBatch(r, i) ==
    [r EXCEPT !.pc = "embed", !.i = i, !.attempt = 1, !.waits = <<>>,
              !.embeddings = <<>>, !.j = 1,
              !.attempted = Append(@, i \div BATCH_SIZE + 1)]

\* the end of the loop body: the next batch (after time.sleep), or the summary
AfterBatch(r) ==
    IF r.i + BATCH_SIZE < Len(r.docs)
    THEN StartBatch(r, r.i + BATCH_SIZE)
    ELSE [r EXCEPT !.pc = "summary"]

\* variant: the exception of a batch is not caught and ends the script
BatchFailed_Raises(r) == [r EXCEPT !.pc = "exited", !.exit = {1}]

\* except Exception: every id of the batch is appended to failed_ids
BatchFailed(r) ==
    LET batch == BatchOf(r)
    IN  AfterBatch([r EXCEPT !.failed_ids =
                       @ \o [k \in DOMAIN batch |-> batch[k].id]])

\* variant: the last attempt also sleeps before the exception is raised
RetryStep_SleepsAfterLast(r) ==
    IF r.attempt = MAX_RETRIES
    THEN BatchFailed([r EXCEPT !.waits = Append(@, r.attempt * BackoffSeconds)])
    ELSE [r EXCEPT !.pc = "backoff"]

\* embed_with_retry, a failed attempt: raise on the last one, else back off
RetryStep(r) ==
    IF r.attempt = MAX_RETRIES
    THEN BatchFailed(r)
    ELSE [r EXCEPT !.pc = "backoff"]

IngestFrame == UNCHANGED <<lifecycleVars, search, chat_sessions, rq, rag>>

\* main(): the arguments, fetch_documents, the empty-selection return
IngestStart ==
    /\ run.pc \in {"idle", "exited"}
    /\ run.runs < MaxRuns
    /\ \E force \in BOOLEAN, plan_type \in PlanTypeArgs,
          section \in SectionArgs, native \in NativeDimensions,
          outcome \in StoreOutcomes :
        LET docs == IF outcome = "ok"
                    THEN fetch_documents(policy_documents, force, plan_type, section)
                    ELSE <<>>
            r == [pc |-> "exited", runs |-> run.runs + 1, force |-> force,
                  plan_type |-> plan_type, section |-> section,
                  native |-> native, fetched |-> outcome = "ok",
                  docs |-> docs, i |-> 0, attempt |-> 1,
                  waits |-> <<>>, embeddings |-> <<>>, j |-> 1,
                  succeeded |-> 0, failed_ids |-> <<>>, attempted |-> <<>>,
                  written |-> {}, summary |-> <<>>, exit |-> {}]
        IN  run' = IF outcome # "ok" THEN [r EXCEPT !.exit = {1}]
                   ELSE IF docs = <<>> THEN [r EXCEPT !.exit = {0}]
                   ELSE StartBatch(r, 0)
    /\ UNCHANGED policy_documents
    /\ IngestFrame

\* embed_with_retry: one call of embeddings.embed_documents
EmbedAttempt ==
    /\ run.pc = "embed"
    /\ \E outcome \in StoreOutcomes :
        run' = IF outcome = "ok"
               THEN [run EXCEPT !.pc = "update", !.j = 1,
                        !.embeddings = [k \in DOMAIN BatchOf(run) |->
                                           NativeVector(run.native)]]
               ELSE RetryStep(run)
    /\ UNCHANGED policy_documents
    /\ IngestFrame

\* embed_with_retry: wait = attempt * 2.0; time.sleep(wait)
Backoff ==
    /\ run.pc = "backoff"
    /\ run' = [run EXCEPT !.pc = "embed", !.attempt = @ + 1,
                          !.waits = Append(@, run.attempt * BackoffSeconds)]
    /\ UNCHANGED policy_documents
    /\ IngestFrame

\* the zip loop: trim, update_embedding, succeeded += 1
UpdateEmbedding ==
    /\ run.pc = "update"
    /\ LET batch == BatchOf(run)
           doc == batch[run.j]
           trimmed == TrimDocument(run.embeddings[run.j])
       IN  \E outcome \in StoreOutcomes :
            IF outcome = "ok"
            THEN /\ policy_documents' =
                        [policy_documents EXCEPT ![doc.id].embedding = {trimmed}]
                 /\ LET r == [run EXCEPT !.succeeded = @ + 1,
                                          !.written = @ \cup {doc.id}]
                    IN  run' = IF run.j = Len(batch)
                               THEN AfterBatch(r)
                               ELSE [r EXCEPT !.j = @ + 1]
            ELSE /\ UNCHANGED policy_documents
                 /\ run' = BatchFailed(run)
    /\ IngestFrame

\* variant: the status is 1 only when no document succeeded
ExitStatus_NoneSucceeded(r) == IF r.succeeded = 0 THEN {1} ELSE {0}

\* if failed_ids: sys.exit(1); falling off main() is status 0
ExitStatus(r) == IF r.failed_ids # <<>> THEN {1} ELSE {0}

\* print_summary, then the exit status
Summary ==
    /\ run.pc = "summary"
    /\ run' = [run EXCEPT !.pc = "exited",
                  !.summary = <<[total |-> Len(run.docs),
                                 succeeded |-> run.succeeded,
                                 failed |-> run.failed_ids]>>,
                  !.exit = ExitStatus(run)]
    /\ UNCHANGED policy_documents
    /\ IngestFrame

\* search_policy_documents: embed_query, the slice, the match_documents rpc
SearchPolicyDocuments ==
    /\ rag.state = "idle"
    /\ run.pc \in {"idle", "exited"}
    /\ \E native \in NativeDimensions, embed \in StoreOutcomes,
          rpc \in StoreOutcomes :
        rag' = IF embed = "ok"
               THEN [state |-> "done", native |-> native,
                     query_embedding |->
                         {TrimQuery(NativeVector(native))},
                     kind |-> IF rpc = "ok" THEN "result" ELSE "raised"]
               ELSE [state |-> "done", native |-> native,
                     query_embedding |-> {}, kind |-> "raised"]
    /\ UNCHANGED <<lifecycleVars, search, chat_sessions, rq,
                   policy_documents, run>>

InitIngest ==
    /\ now = 0
    /\ quotations = <<>>
    /\ orders = <<>>
    /\ pc = [p \in Procs |-> "idle"]
    /\ call = [p \in Procs |-> NoCall]
    /\ ret = NoResult
    /\ everPaid = {}
    /\ search = NoSearch
    /\ chat_sessions = <<>>
    /\ rq = NoRequest
    /\ policy_documents = InitialDocuments
    /\ run = NoRun
    /\ rag = NoRag

NextIngest ==
    \/ IngestStart
    \/ EmbedAttempt
    \/ Backoff
    \/ UpdateEmbedding
    \/ Summary
    \/ SearchPolicyDocuments

SpecIngest == InitIngest /\ [][NextIngest]_vars

\* the script runs to completion once started: every step of a run is taken
SpecIngestFair ==
    /\ InitIngest
    /\ [][NextIngest]_vars
    /\ WF_vars(EmbedAttempt)
    /\ WF_vars(Backoff)
    /\ WF_vars(UpdateEmbedding)
    /\ WF_vars(Summary)

\* ceil(len(docs) / BATCH_SIZE)
TotalBatches(r) == (Len(r.docs) + BATCH_SIZE - 1) \div BATCH_SIZE

InRun == run.pc \in {"embed", "backoff", "update", "summary"}
Selected == run.pc # "idle" /\ run.fetched /\ run.docs # <<>>

\* C24: a permanently failed batch does not stop the run.  The batches are
\* attempted in order 1, 2, ...; a run that selected documents and has exited
\* has attempted every batch and printed the summary; and a run in progress
\* always reaches that exit, whatever the embedding calls and writes do.
C24_FailedBatchDoesNotBlock ==
    /\ [](run.pc # "idle" =>
            /\ \A k \in DOMAIN run.attempted : run.attempted[k] = k
            /\ Len(run.attempted) <= TotalBatches(run))
    /\ []((Selected /\ run.pc = "exited") =>
            /\ Len(run.attempted) = TotalBatches(run)
            /\ run.summary # <<>>)
    /\ (InRun ~> (run.pc = "exited" /\ run.summary # <<>>))

\* the first batch failed for good, the second was attempted, the run ended
C24_Witness ==
    /\ Selected
    /\ run.pc = "exited"
    /\ Len(run.attempted) = 2
    /\ \E k \in DOMAIN run.failed_ids : run.failed_ids[k] = run.docs[1].id
    /\ run.summary # <<>>

\* the waits slept so far in a batch are 1 x 2s, 2 x 2s, ...
LinearWaits(w) == \A m \in DOMAIN w : w[m] = m * BackoffSeconds

\* C25: the embedding call of a batch is attempted at most MAX_RETRIES times;
\* the wait after failed attempt k is k x 2s and none follows the last
\* attempt; the batch is declared failed by the embedding call only at
\* attempt MAX_RETRIES; a successful attempt is the last one of its batch.
C25_RetryWithBackoff ==
    /\ [](run.pc # "idle" =>
            /\ run.attempt \in 1..MAX_RETRIES
            /\ Len(run.waits) <= MAX_RETRIES - 1
            /\ LinearWaits(run.waits)
            /\ run.pc = "embed" => Len(run.waits) = run.attempt - 1
            /\ run.pc = "backoff" => Len(run.waits) = run.attempt - 1)
    /\ [][ /\ (run.pc = "embed" /\ run'.failed_ids # run.failed_ids) =>
                /\ run.attempt = MAX_RETRIES
                /\ Len(run.waits) = MAX_RETRIES - 1
           /\ (run.pc = "embed" /\ run'.pc = "backoff") =>
                /\ run.attempt < MAX_RETRIES
                /\ run'.failed_ids = run.failed_ids
           /\ run.pc = "backoff" =>
                /\ run'.pc = "embed"
                /\ run'.attempt = run.attempt + 1
                /\ run'.waits = Append(run.waits, run.attempt * BackoffSeconds)
           /\ (run.pc = "embed" /\ run'.pc = "update") =>
                /\ run'.waits = run.waits
                /\ run'.attempt = run.attempt
           /\ run.pc = "update" =>
                /\ run'.pc # "backoff"
                /\ run'.pc = "embed" => run'.i # run.i ]_vars

\* every attempt of the only batch failed: two waits were slept, not three
C25_Witness ==
    /\ run.pc = "summary"
    /\ run.attempt = MAX_RETRIES
    /\ run.waits = <<BackoffSeconds, 2 * BackoffSeconds>>
    /\ run.embeddings = <<>>
    /\ run.failed_ids # <<>>

\* a selected document that this run did not store
SomeSelectedFailed == \E k \in DOMAIN run.docs : run.docs[k].id \notin run.written

\* C26: the run exits with status 1 exactly when a selected document failed
\* to embed or to be stored, and with status 0 otherwise.
C26_ExitStatus ==
    run.pc = "exited" =>
        /\ run.exit = {1} <=> SomeSelectedFailed
        /\ run.exit = {0} <=> ~SomeSelectedFailed

\* C26, amended: the same for a run whose selection query returned; a run
\* whose selection query raised exits with status 1 having selected nothing.
C26_ExitStatusAfterSelection ==
    run.pc = "exited" =>
        IF run.fetched
        THEN /\ run.exit = {1} <=> SomeSelectedFailed
             /\ run.exit = {0} <=> ~SomeSelectedFailed
             /\ run.docs = <<>> => run.exit = {0}
        ELSE /\ run.exit = {1}
             /\ run.docs = <<>>
             /\ run.summary = <<>>

\* a run that stored some documents and failed on others
C26_Witness ==
    /\ run.pc = "exited"
    /\ run.fetched
    /\ run.written # {}
    /\ SomeSelectedFailed
    /\ run.exit = {1}

\* the stored embeddings
StoredVectors ==
    UNION { policy_documents[k].embedding : k \in DOMAIN policy_documents }

\* C27: every stored vector has exactly VECTOR_DIMENSIONS components,
\* whatever the native dimensionality of the provider's vectors.
C27_StoredLength == \A v \in StoredVectors : VectorLen(v) = VECTOR_DIMENSIONS

\* C28: the query path and the ingestion path retain the same leading
\* components of a native vector: the two trims agree on every native
\* vector, and a query embedded at the dimensionality of the latest run is
\* trimmed to the very vector that run stored.
C28_SameTruncation ==
    /\ \A n \in NativeDimensions :
          TrimQuery(NativeVector(n)) = TrimDocument(NativeVector(n))
    /\ (rag.state = "done" /\ run.pc = "exited" /\ rag.native = run.native) =>
          \A id \in run.written :
              \A q \in rag.query_embedding :
                  policy_documents[id].embedding = {q}

\* a query embedded at a native dimensionality above 2000, after a run at
\* that dimensionality stored a document
C28_Witness ==
    /\ rag.state = "done"
    /\ rag.kind = "result"
    /\ rag.native = VECTOR_DIMENSIONS + 1
    /\ run.pc = "exited"
    /\ run.native = rag.native
    /\ run.written # {}

SelectedIds(r) == { r.docs[k].id : k \in DOMAIN r.docs }
RunStarts == run.pc \in {"idle", "exited"} /\ run'.runs = run.runs + 1
AllSucceeded(r) ==
    r.pc = "exited" /\ r.fetched /\ r.exit = {0} /\ r.written = SelectedIds(r)

\* C29: a run without --force selects only documents whose embedding is
\* null; a run writes nothing but the embedding of documents it selected;
\* and a run without --force that starts after a run in which every document
\* succeeded, with the same filters or after an unfiltered run, selects no
\* document, exits and writes nothing.
C29_ReadsNullWritesEmbedding ==
    [][ /\ (RunStarts /\ ~run'.force) =>
              \A id \in SelectedIds(run') : policy_documents[id].embedding = {}
        /\ RunStarts => policy_documents' = policy_documents
        /\ \A k \in DOMAIN policy_documents :
              /\ policy_documents'[k] =
                    [policy_documents[k] EXCEPT
                        !.embedding = policy_documents'[k].embedding]
              /\ policy_documents'[k] # policy_documents[k] =>
                    /\ run.pc = "update"
                    /\ k \in SelectedIds(run)
        /\ DOMAIN policy_documents' = DOMAIN policy_documents
        /\ (/\ RunStarts
            /\ ~run'.force
            /\ run'.fetched
            /\ AllSucceeded(run)
            /\ \/ run.plan_type = run'.plan_type /\ run.section = run'.section
               \/ run.plan_type = None /\ run.section = None) =>
              /\ run'.docs = <<>>
              /\ run'.pc = "exited"
              /\ run'.exit = {0}
              /\ run'.written = {} ]_vars

\* the second run, without --force and unfiltered, finds every document
\* embedded and selects nothing
C29_Witness ==
    /\ run.runs = 2
    /\ run.pc = "exited"
    /\ run.fetched
    /\ ~run.force
    /\ run.plan_type = None
    /\ run.section = None
    /\ run.docs = <<>>
    /\ \A k \in DOMAIN policy_documents : policy_documents[k].embedding # {}

(***************************************************************************)
(* Further properties of the lifecycle, the chat endpoints, the ingestion  *)
(* run and the search cascade.                                             *)
(***************************************************************************)
\* C31: no quotation ever has status "expired"; a stored status is "draft"
\* or "accepted", it changes only from "draft" to "accepted", and quotations
\* are never removed, over any sequence of calls of the four tools.
C31_StatusDraftToAccepted ==
    /\ [](\A i \in DOMAIN quotations : quotations[i].status \in {"draft", "accepted"})
    /\ [][ /\ Len(quotations') >= Len(quotations)
           /\ \A i \in DOMAIN quotations :
                 quotations'[i].status # quotations[i].status =>
                    /\ quotations[i].status = "draft"
                    /\ quotations'[i].status = "accepted" ]_vars

\* an accepted quotation, seen after get_order_status read its order
C31_Witness ==
    /\ ret.kind = "order_found"
    /\ \E i \in DOMAIN quotations : quotations[i].status = "accepted"

\* caller p's create_order returns success=false in this step
CreateOrderFails(p) ==
    /\ call[p].op = "create_order"
    /\ pc'[p] = "idle"
    /\ ~ret'.success

\* C32: a create_order that returns success=false has created no order row
\* and has left the status of its quotation as it found it.
C32_FailureWritesNothing ==
    [][ \A p \in Procs : CreateOrderFails(p) =>
            /\ call[p].created = <<>>
            /\ orders' = orders
            /\ quotations'[call[p].quotation_id].status =
                   call[p].quotation[1].status ]_vars

\* the request ended in HTTP 500, in an {error} event, or with no terminal event
RequestFailed ==
    /\ rq.pc = "done"
    /\ \/ rq.response \in {"500", "aborted"}
       \/ \E k \in DOMAIN rq.events : rq.events[k] = "error"

\* C33: a chat request that has failed has appended no message to the
\* session; a finished request has appended both messages or none.
C33_FailedRequestAppendsNothing ==
    /\ RequestFailed => Len(chat_sessions) = rq.base
    /\ rq.pc = "done" => Len(chat_sessions) - rq.base \in {0, 2}

\* the ids listed as failed in the summary
FailedIds(r) == { r.failed_ids[k] : k \in DOMAIN r.failed_ids }

\* C34: in the summary of a run, succeeded + the number of failed ids is the
\* number of selected documents, and no document that was stored (counted as
\* succeeded) is listed as failed.
C34_CountsPartition ==
    (run.pc = "exited" /\ run.summary # <<>>) =>
        /\ run.summary[1].succeeded + Len(run.summary[1].failed)
              = run.summary[1].total
        /\ run.written \cap FailedIds(run) = {}

\* C35: when the call answers with the exact-match message, every returned
\* record matches every attribute the caller supplied: brand, model and
\* sub_model as case-insensitive substrings, year by equality.
C35_ExactMessageMatchesSupplied ==
    (Searched /\ search.result.message = MsgExact) =>
        \A r \in search.result.records :
            /\ search.brand # <<>> => ILike(r.brand, search.brand)
            /\ search.model # <<>> => ILike(r.model, search.model)
            /\ search.sub_model # <<>> => ILike(r.sub_model, search.sub_model)
            /\ search.year # 0 => r.year = search.year

\* C36: an order whose policy is active has payment_status "paid" or
\* "refunded".
C36_ActiveImpliesPaidOrRefunded ==
    \A i \in DOMAIN orders :
        orders[i].policy_status = "active" =>
            orders[i].payment_status \in {"paid", "refunded"}

====
